---- MODULE Spec2Model ----
(***************************************************************************)
(* Model of the ZIP structural parser of archive-analyzer                  *)
(* (src/src/zip/reader.rs, src/src/zip/model.rs, src/src/util.rs).         *)
(*                                                                         *)
(* The input file is a sequence of bytes, the file cursor is a 0-based     *)
(* offset into it.  Record decoders are operators over (input, cursor);    *)
(* the archive walker ZipFileReader::read is a state machine with one      *)
(* action per loop iteration.  Option<T> is modelled as a sequence of      *)
(* length 0 (None) or 1 (Some).  A Rust panic (unwrap on an Err) is the    *)
(* result "panic".  The bytes of the explored inputs are below 128, so     *)
(* that every u32 read from them is below 2^31.  Errors of the file system *)
(* (stream_position, seek) are not modelled.                               *)
(***************************************************************************)
EXTENDS Integers, Sequences, FiniteSets, TLC

VARIABLES input, pos, pc, stored_files, archive_extra_data_record,
          central_directory, result

vars == <<input, pos, pc, stored_files, archive_extra_data_record,
          central_directory, result>>

(***************************************************************************)
(* Bounds of the explored inputs.                                          *)
(***************************************************************************)
\* Largest number of body segments (entries, garbage).
MaxBody == 3
\* Largest number of bytes cut from the end of the input.
MaxCut == 2

None == << >>
Some(x) == << x >>

\* The element of a one-element set: The({ e : x \in { v } }) is e with x bound
\* to the value v.
The(S) == CHOOSE x \in S : TRUE

(***************************************************************************)
(* zip/constants.rs                                                        *)
(***************************************************************************)
SIGNATURE_HEADER_LOCAL_FILE == 67324752
SIGNATURE_ARCHIVE_EXTRA_DATA_RECORD == 1347094024
SIGNATURE_HEADER_CENTRAL_DIRECTORY == 1347092738
SIGNATURE_CENTRAL_DIRECTORY_DIGITAL_SIGNATURE == 1347093765
SIGNATURE_END_OF_CENTRAL_DIRECTORY_RECORD == 1347093766

(***************************************************************************)
(* util.rs                                                                 *)
(***************************************************************************)
\* read_chunk: at most chunk_size bytes from the cursor, short at end of file.
read_chunk(inp, p, chunk_size) ==
    SubSeq(inp, p + 1, IF p + chunk_size > Len(inp) THEN Len(inp) ELSE p + chunk_size)

\* The cursor after read_chunk.
after_chunk(inp, p, chunk_size) ==
    IF p + chunk_size > Len(inp) THEN (IF p > Len(inp) THEN p ELSE Len(inp)) ELSE p + chunk_size

read_u32_le(chunk) ==
    IF Len(chunk) > 4 THEN [ok |-> FALSE, err |-> "TooManyBytes"]
    ELSE IF Len(chunk) < 4 THEN [ok |-> FALSE, err |-> "NotEnoughBytes"]
    ELSE [ok |-> TRUE,
          value |-> chunk[1] + 256 * chunk[2] + 65536 * chunk[3] + 16777216 * chunk[4]]

read_u16_le(chunk) ==
    IF Len(chunk) > 2 THEN [ok |-> FALSE, err |-> "TooManyBytes"]
    ELSE IF Len(chunk) < 2 THEN [ok |-> FALSE, err |-> "NotEnoughBytes"]
    ELSE [ok |-> TRUE, value |-> chunk[1] + 256 * chunk[2]]

\* read_string_bytes: one char per byte, the char whose code point is the byte.
RECURSIVE read_string_bytes(_)
read_string_bytes(chunk) ==
    IF chunk = << >> THEN << >>
    ELSE << [code_point |-> Head(chunk)] >> \o read_string_bytes(Tail(chunk))

\* Mutant of rewind_file_cursor: the cursor is not moved.
rewind_file_cursor_nowhere(p, number_of_bytes) == p

\* rewind_file_cursor: the new cursor.
rewind_file_cursor(p, number_of_bytes) == p - number_of_bytes

\* Mutant of compare_signature_raw: a chunk of fewer than 4 bytes is a mismatch
\* instead of an Err.
compare_signature_raw_lenient(p, signature_1, signature_2, rewind_on_mismatch) ==
    LET value == read_u32_le(signature_1) IN
    IF ~value.ok THEN [ok |-> TRUE, match |-> FALSE, pos |-> p]
    ELSE LET signature_match == (value.value = signature_2) IN
         [ok |-> TRUE, match |-> signature_match,
          pos |-> IF ~signature_match /\ rewind_on_mismatch
                  THEN rewind_file_cursor(p, 4) ELSE p]

\* compare_signature_raw on an already read chunk; p is the cursor after the
\* chunk was read.  Result: ok (no Err), match, and the cursor afterwards.
compare_signature_raw(p, signature_1, signature_2, rewind_on_mismatch) ==
    LET value == read_u32_le(signature_1) IN
    IF ~value.ok THEN [ok |-> FALSE, match |-> FALSE, pos |-> p]
    ELSE LET signature_match == (value.value = signature_2) IN
         [ok |-> TRUE, match |-> signature_match,
          pos |-> IF ~signature_match /\ rewind_on_mismatch
                  THEN rewind_file_cursor(p, 4) ELSE p]

\* Mutant of compare_signature: the cursor is not rewound on a mismatch.
compare_signature_no_rewind(inp, p, signature) ==
    compare_signature_raw(after_chunk(inp, p, 4), read_chunk(inp, p, 4), signature, FALSE)

compare_signature(inp, p, signature) ==
    compare_signature_raw(after_chunk(inp, p, 4), read_chunk(inp, p, 4), signature, TRUE)

file_has_remaining_space(inp, p, number_of_bytes) ==
    Len(inp) - p > number_of_bytes

(***************************************************************************)
(* zip/reader.rs: record decoders.  Each takes the input and the cursor    *)
(* just after the record's signature and yields status ("ok", "err" or     *)
(* "panic"), the cursor where it stopped, and the decoded record.          *)
(***************************************************************************)
LocalFileHeaderReader_read(inp, p) ==
    LET minimum_version_chunk == read_chunk(inp, p, 2)
        general_purpose_flag_chunk == read_chunk(inp, p + 2, 2)
        compression_method_chunk == read_chunk(inp, p + 4, 2)
        file_last_modification_time_chunk == read_chunk(inp, p + 6, 2)
        file_last_modification_date_chunk == read_chunk(inp, p + 8, 2)
        crc32_chunk == read_chunk(inp, p + 10, 4)
        compressed_size_chunk == read_chunk(inp, p + 14, 4)
        uncompressed_size_chunk == read_chunk(inp, p + 18, 4)
        filename_length_chunk == read_chunk(inp, p + 22, 2)
        extra_fields_length_chunk == read_chunk(inp, p + 24, 2)
    IN
    \* u16::from_le_bytes(chunk.try_into().unwrap()) panics on a short chunk
    IF Len(filename_length_chunk) # 2 \/ Len(extra_fields_length_chunk) # 2
    THEN [status |-> "panic", pos |-> after_chunk(inp, p, 26)]
    ELSE
    LET filename_length == read_u16_le(filename_length_chunk).value
        extra_fields_length == read_u16_le(extra_fields_length_chunk).value
        filename_chunk == read_chunk(inp, p + 26, filename_length)
        p_extra == after_chunk(inp, p + 26, filename_length)
        extra_field_chunk == read_chunk(inp, p_extra, extra_fields_length)
        p_end == after_chunk(inp, p_extra, extra_fields_length)
        minimum_version == read_u16_le(minimum_version_chunk)
        general_purpose_flag == read_u16_le(general_purpose_flag_chunk)
        compression_method == read_u16_le(compression_method_chunk)
        file_last_modification_time == read_u16_le(file_last_modification_time_chunk)
        file_last_modification_date == read_u16_le(file_last_modification_date_chunk)
        crc32 == read_u32_le(crc32_chunk)
        compressed_size == read_u32_le(compressed_size_chunk)
        uncompressed_size == read_u32_le(uncompressed_size_chunk)
    IN
    IF \/ ~minimum_version.ok \/ ~general_purpose_flag.ok \/ ~compression_method.ok
       \/ ~file_last_modification_time.ok \/ ~file_last_modification_date.ok
       \/ ~crc32.ok \/ ~compressed_size.ok \/ ~uncompressed_size.ok
    THEN [status |-> "err", pos |-> p_end]
    ELSE [status |-> "ok", pos |-> p_end,
          value |-> [minimum_version |-> minimum_version.value,
                     general_purpose_flag |-> general_purpose_flag.value,
                     compression_method |-> compression_method.value,
                     file_last_modification_time |-> file_last_modification_time.value,
                     file_last_modification_date |-> file_last_modification_date.value,
                     crc32 |-> crc32.value,
                     compressed_size |-> compressed_size.value,
                     uncompressed_size |-> uncompressed_size.value,
                     filename |-> read_string_bytes(filename_chunk),
                     extra_field |-> extra_field_chunk]]

DataDescriptorReader_read(inp, p) ==
    LET crc32 == read_u32_le(read_chunk(inp, p, 4))
        compressed_size == read_u32_le(read_chunk(inp, p + 4, 4))
        uncompressed_size == read_u32_le(read_chunk(inp, p + 8, 4))
    IN
    IF ~crc32.ok \/ ~compressed_size.ok \/ ~uncompressed_size.ok
    THEN [status |-> "err", pos |-> after_chunk(inp, p, 12)]
    ELSE [status |-> "ok", pos |-> p + 12,
          value |-> [crc32 |-> crc32.value,
                     compressed_size |-> compressed_size.value,
                     uncompressed_size |-> uncompressed_size.value]]

\* The test of StoredFileReader::read for "a data descriptor follows":
\* general_purpose_flag & 4 == 4.
has_data_descriptor(general_purpose_flag) == (general_purpose_flag \div 4) % 2 = 1

\* Mutant of offset_of_signature: the 4 bytes of the signature are not subtracted.
offset_of_signature_unadjusted(p) == p

\* offset_in_archive of a stored file whose signature ended at cursor p.
offset_of_signature(p) == p - 4

\* p is the cursor just after the 4-byte signature.
StoredFileReader_read(inp, p, position) ==
    LET offset_in_archive == offset_of_signature(p)
        \* after the local file header lfh: the payload, then the data descriptor
        no_descriptor == [status |-> "none", pos |-> p]
        p_data(lfh) == after_chunk(inp, lfh.pos, lfh.value.compressed_size)
        with_dd(lfh) == has_data_descriptor(lfh.value.general_purpose_flag)
        finish(lfh, dd) ==
            IF dd.status = "err" THEN [status |-> "err", pos |-> dd.pos]
            ELSE [status |-> "ok",
                  pos |-> IF dd.status = "ok" THEN dd.pos ELSE p_data(lfh),
                  value |-> [local_file_header |-> lfh.value,
                             file_data |->
                                 read_chunk(inp, lfh.pos, lfh.value.compressed_size),
                             data_descriptor |->
                                 IF dd.status = "ok" THEN Some(dd.value) ELSE None,
                             position |-> position,
                             found_in_central_directory |-> FALSE,
                             offset_in_archive |-> offset_in_archive,
                             offset_from_central_directory |-> None]]
    IN
    The({ IF lfh.status # "ok" THEN [status |-> lfh.status, pos |-> lfh.pos]
          ELSE The({ finish(lfh, dd) :
                     dd \in { IF with_dd(lfh)
                              THEN DataDescriptorReader_read(inp, p_data(lfh))
                              ELSE no_descriptor } }) :
          lfh \in { LocalFileHeaderReader_read(inp, p) } })

ArchiveExtraDataRecordReader_read(inp, p) ==
    LET extra_field_length == read_u32_le(read_chunk(inp, p, 4)) IN
    IF ~extra_field_length.ok THEN [status |-> "err", pos |-> after_chunk(inp, p, 4)]
    ELSE [status |-> "ok",
          pos |-> after_chunk(inp, p + 4, extra_field_length.value),
          value |-> [extra_field |-> read_chunk(inp, p + 4, extra_field_length.value)]]

CentralDirectoryFileHeaderReader_read(inp, p) ==
    LET version_made_by == read_u16_le(read_chunk(inp, p, 2))
        minimum_version == read_u16_le(read_chunk(inp, p + 2, 2))
        general_purpose_flag == read_u16_le(read_chunk(inp, p + 4, 2))
        compression_method == read_u16_le(read_chunk(inp, p + 6, 2))
        file_last_modification_time == read_u16_le(read_chunk(inp, p + 8, 2))
        file_last_modification_date == read_u16_le(read_chunk(inp, p + 10, 2))
        crc32 == read_u32_le(read_chunk(inp, p + 12, 4))
        compressed_size == read_u32_le(read_chunk(inp, p + 16, 4))
        uncompressed_size == read_u32_le(read_chunk(inp, p + 20, 4))
        filename_length == read_u16_le(read_chunk(inp, p + 24, 2))
        extra_field_length == read_u16_le(read_chunk(inp, p + 26, 2))
        file_comment_length == read_u16_le(read_chunk(inp, p + 28, 2))
        disk_number_where_file_starts == read_u16_le(read_chunk(inp, p + 30, 2))
        internal_file_attributes == read_u16_le(read_chunk(inp, p + 32, 2))
        external_file_attributes == read_u32_le(read_chunk(inp, p + 34, 4))
        relative_offset_of_local_header == read_u32_le(read_chunk(inp, p + 38, 4))
    IN
    IF \/ ~version_made_by.ok \/ ~minimum_version.ok \/ ~general_purpose_flag.ok
       \/ ~compression_method.ok \/ ~file_last_modification_time.ok
       \/ ~file_last_modification_date.ok \/ ~crc32.ok \/ ~compressed_size.ok
       \/ ~uncompressed_size.ok \/ ~filename_length.ok \/ ~extra_field_length.ok
       \/ ~file_comment_length.ok \/ ~disk_number_where_file_starts.ok
       \/ ~internal_file_attributes.ok \/ ~external_file_attributes.ok
       \/ ~relative_offset_of_local_header.ok
    THEN [status |-> "err", pos |-> after_chunk(inp, p, 42)]
    ELSE
    LET filename_chunk == read_chunk(inp, p + 42, filename_length.value)
        p_extra == after_chunk(inp, p + 42, filename_length.value)
        extra_field_chunk == read_chunk(inp, p_extra, extra_field_length.value)
        p_comment == after_chunk(inp, p_extra, extra_field_length.value)
        file_comment_chunk == read_chunk(inp, p_comment, file_comment_length.value)
    IN
    [status |-> "ok",
     pos |-> after_chunk(inp, p_comment, file_comment_length.value),
     value |-> [version_made_by |-> version_made_by.value,
                minimum_version |-> minimum_version.value,
                general_purpose_flag |-> general_purpose_flag.value,
                compression_method |-> compression_method.value,
                file_last_modification_time |-> file_last_modification_time.value,
                file_last_modification_date |-> file_last_modification_date.value,
                crc32 |-> crc32.value,
                compressed_size |-> compressed_size.value,
                uncompressed_size |-> uncompressed_size.value,
                disk_start |-> disk_number_where_file_starts.value,
                internal_file_attributes |-> internal_file_attributes.value,
                external_file_attributes |-> external_file_attributes.value,
                local_file_header_offset |-> relative_offset_of_local_header.value,
                filename |-> read_string_bytes(filename_chunk),
                extra_field |-> extra_field_chunk,
                file_comment |-> read_string_bytes(file_comment_chunk),
                position |-> None]]

DigitalSignatureReader_read(inp, p) ==
    LET size_of_data == read_u16_le(read_chunk(inp, p, 2)) IN
    IF ~size_of_data.ok THEN [status |-> "err", pos |-> after_chunk(inp, p, 2)]
    ELSE [status |-> "ok",
          pos |-> after_chunk(inp, p + 2, size_of_data.value),
          value |-> [signature_data |-> read_chunk(inp, p + 2, size_of_data.value)]]

EndOfCentralDirectoryRecordReader_read(inp, p) ==
    LET number_of_this_disk == read_u16_le(read_chunk(inp, p, 2))
        disk_where_central_directory_starts == read_u16_le(read_chunk(inp, p + 2, 2))
        number_of_central_directory_records_on_this_disk ==
            read_u16_le(read_chunk(inp, p + 4, 2))
        total_number_of_central_directory_records == read_u16_le(read_chunk(inp, p + 6, 2))
        size_of_central_directory == read_u32_le(read_chunk(inp, p + 8, 4))
        offset_start_of_central_directory_from_archive ==
            read_u32_le(read_chunk(inp, p + 12, 4))
        comment_length == read_u16_le(read_chunk(inp, p + 16, 2))
    IN
    IF ~comment_length.ok THEN [status |-> "err", pos |-> after_chunk(inp, p, 18)]
    ELSE
    LET comment_chunk == read_chunk(inp, p + 18, comment_length.value)
        p_end == after_chunk(inp, p + 18, comment_length.value)
    IN
    IF \/ ~number_of_this_disk.ok \/ ~disk_where_central_directory_starts.ok
       \/ ~number_of_central_directory_records_on_this_disk.ok
       \/ ~total_number_of_central_directory_records.ok
       \/ ~size_of_central_directory.ok
       \/ ~offset_start_of_central_directory_from_archive.ok
    THEN [status |-> "err", pos |-> p_end]
    ELSE [status |-> "ok", pos |-> p_end,
          value |-> [disk_number |-> number_of_this_disk.value,
                     disk_start_central_directory |->
                         disk_where_central_directory_starts.value,
                     central_directory_records_number_on_disk |->
                         number_of_central_directory_records_on_this_disk.value,
                     central_directory_records_total_number |->
                         total_number_of_central_directory_records.value,
                     central_directory_size |-> size_of_central_directory.value,
                     offset_start_central_directory |->
                         offset_start_of_central_directory_from_archive.value,
                     comment |-> read_string_bytes(comment_chunk)]]

\* CentralDirectoryReader::read, the loop over the file headers: p is the
\* cursor before a signature probe, headers the file headers read so far.
RECURSIVE read_file_headers(_, _, _)
read_file_headers(inp, p, headers) ==
    The({ IF ~probe.ok THEN [status |-> "err", pos |-> probe.pos]
          ELSE IF ~probe.match THEN [status |-> "ok", pos |-> probe.pos, value |-> headers]
          ELSE The({ IF h.status # "ok" THEN [status |-> "err", pos |-> h.pos]
                     ELSE The({ read_file_headers(inp, h.pos, pushed) :
                                pushed \in { Append(headers,
                                                [h.value EXCEPT
                                                    !.position = Some(Len(headers))]) } }) :
                     h \in { CentralDirectoryFileHeaderReader_read(inp, probe.pos) } }) :
          probe \in { compare_signature(inp, p, SIGNATURE_HEADER_CENTRAL_DIRECTORY) } })

\* CentralDirectoryReader::read, "Check if digital signature is present".
read_digital_signature(inp, p) ==
    The({ IF probe.ok /\ probe.match
          THEN The({ IF ds.status # "ok" THEN [status |-> "err", pos |-> ds.pos]
                     ELSE [status |-> "ok", pos |-> ds.pos, value |-> Some(ds.value)] :
                     ds \in { DigitalSignatureReader_read(inp, probe.pos) } })
          ELSE [status |-> "ok", pos |-> probe.pos, value |-> None] :
          probe \in { compare_signature(inp, p,
                                        SIGNATURE_CENTRAL_DIRECTORY_DIGITAL_SIGNATURE) } })

\* Mutant of read_end_of_central_directory: without the signature of the record
\* an empty record is taken in its place.
read_end_of_central_directory_lenient(inp, p) ==
    LET probe == compare_signature(inp, p, SIGNATURE_END_OF_CENTRAL_DIRECTORY_RECORD) IN
    IF probe.ok /\ probe.match
    THEN LET eo == EndOfCentralDirectoryRecordReader_read(inp, probe.pos) IN
         IF eo.status # "ok" THEN [status |-> "err", pos |-> eo.pos]
         ELSE [status |-> "ok", pos |-> eo.pos, value |-> Some(eo.value)]
    ELSE [status |-> "ok", pos |-> probe.pos,
          value |-> Some([disk_number |-> 0, disk_start_central_directory |-> 0,
                          central_directory_records_number_on_disk |-> 0,
                          central_directory_records_total_number |-> 0,
                          central_directory_size |-> 0,
                          offset_start_central_directory |-> 0,
                          comment |-> << >>])]

\* CentralDirectoryReader::read, "Read end of central directory record".
read_end_of_central_directory(inp, p) ==
    The({ IF probe.ok /\ probe.match
          THEN The({ IF eo.status # "ok" THEN [status |-> "err", pos |-> eo.pos]
                     ELSE [status |-> "ok", pos |-> eo.pos, value |-> Some(eo.value)] :
                     eo \in { EndOfCentralDirectoryRecordReader_read(inp, probe.pos) } })
          ELSE [status |-> "ok", pos |-> probe.pos, value |-> None] :
          probe \in { compare_signature(inp, p, SIGNATURE_END_OF_CENTRAL_DIRECTORY_RECORD) } })

\* Mutant of central_directory_offset: the start of the archive is recorded.
central_directory_offset_zero(p) == p - p

\* The cursor recorded as offset_from_start_of_archive.
central_directory_offset(p) == p

CentralDirectoryReader_read(inp, p) ==
    LET offset_from_start_of_archive == central_directory_offset(p)
        finish(hs, ds, eo) ==
            IF eo.status # "ok" THEN [status |-> "err", pos |-> eo.pos]
            ELSE IF eo.value = None THEN [status |-> "err", pos |-> eo.pos]
            ELSE [status |-> "ok", pos |-> eo.pos,
                  value |-> [file_headers |-> hs.value,
                             digital_signature |-> ds.value,
                             end_of_central_directory_record |-> eo.value[1],
                             offset_from_start_of_archive |-> offset_from_start_of_archive]]
        after_signature(hs, ds) ==
            IF ds.status # "ok" THEN [status |-> "err", pos |-> ds.pos]
            ELSE The({ finish(hs, ds, eo) :
                       eo \in { read_end_of_central_directory(inp, ds.pos) } })
    IN
    The({ IF hs.status # "ok" THEN [status |-> "err", pos |-> hs.pos]
          ELSE The({ after_signature(hs, ds) :
                     ds \in { read_digital_signature(inp, hs.pos) } }) :
          hs \in { read_file_headers(inp, p, << >>) } })

(***************************************************************************)
(* zip/model.rs                                                            *)
(***************************************************************************)
\* Mutant of filename_matches: the header's filename only has to begin the
\* stored file's filename.
filename_matches_prefix(header_filename, stored_filename) ==
    /\ Len(header_filename) <= Len(stored_filename)
    /\ SubSeq(stored_filename, 1, Len(header_filename)) = header_filename

\* Mutant of filename_matches: every header matches.
filename_matches_always(header_filename, stored_filename) == TRUE

\* The filename test of update_from_central_directory.
filename_matches(header_filename, stored_filename) == header_filename = stored_filename

\* Mutant of offset_delta: the operands of the subtraction swapped.
offset_delta_swapped(cd_offset, offset_in_archive) == offset_in_archive - cd_offset

\* The value stored in offset_from_central_directory on a match.
offset_delta(cd_offset, offset_in_archive) == cd_offset - offset_in_archive

\* StoredFile::update_from_central_directory, over the headers from index i on.
RECURSIVE update_from_headers(_, _, _)
update_from_headers(stored_file, cd, i) ==
    IF i > Len(cd.file_headers) THEN stored_file
    ELSE IF filename_matches(cd.file_headers[i].filename,
                             stored_file.local_file_header.filename)
         THEN update_from_headers(
                  [stored_file EXCEPT
                      !.found_in_central_directory = TRUE,
                      !.offset_from_central_directory =
                          Some(offset_delta(cd.offset_from_start_of_archive,
                                            stored_file.offset_in_archive))],
                  cd, i + 1)
         ELSE update_from_headers(stored_file, cd, i + 1)

\* Mutant of update_from_central_directory: the offset is not recorded.
update_from_central_directory_found_only(stored_file, cd) ==
    [update_from_headers(stored_file, cd, 1) EXCEPT !.offset_from_central_directory = None]

update_from_central_directory(stored_file, cd) == update_from_headers(stored_file, cd, 1)

(***************************************************************************)
(* The explored inputs: byte images of ZIP records in the layout the       *)
(* decoders read, concatenated and cut short at the end.                   *)
(***************************************************************************)
U16(n) == << n % 256, n \div 256 >>
U32(n) == << n % 256, (n \div 256) % 256, (n \div 65536) % 256, n \div 16777216 >>

\* The signatures as records are framed with them in a ZIP file: "PK" and two
\* record bytes (the values the comments of constants.rs give, little-endian).
WireSignatures ==
    [extra |-> << 80, 75, 6, 8 >>, central |-> << 80, 75, 1, 2 >>,
     digital |-> << 80, 75, 5, 5 >>, end |-> << 80, 75, 5, 6 >>]

\* The bytes from which read_u32_le yields the constants of constants.rs.
CodeSignatures ==
    [extra |-> U32(SIGNATURE_ARCHIVE_EXTRA_DATA_RECORD),
     central |-> U32(SIGNATURE_HEADER_CENTRAL_DIRECTORY),
     digital |-> U32(SIGNATURE_CENTRAL_DIRECTORY_DIGITAL_SIGNATURE),
     end |-> U32(SIGNATURE_END_OF_CENTRAL_DIRECTORY_RECORD)]

\* A local file header with its payload.
Entry(name, flag, data) ==
    << 80, 75, 3, 4 >> \o U16(20) \o U16(flag) \o U16(0) \o U16(0) \o U16(0)
    \o U32(9) \o U32(Len(data)) \o U32(Len(data)) \o U16(Len(name)) \o U16(0)
    \o name \o data

\* A data descriptor: crc32, compressed size, uncompressed size.
Descriptor(size) == U32(9) \o U32(size) \o U32(size)

\* A central directory file header.
Header(sig, name) ==
    sig.central \o U16(20) \o U16(20) \o U16(0) \o U16(0)
    \o U16(0) \o U16(0) \o U32(9) \o U32(1) \o U32(1) \o U16(Len(name)) \o U16(0)
    \o U16(0) \o U16(0) \o U16(0) \o U32(0) \o U32(0) \o name

\* A digital signature record with 6 bytes of data.
Signed(sig) == sig.digital \o U16(6) \o << 1, 2, 3, 4, 5, 6 >>

\* An end of central directory record without comment.
EndRecord(sig) ==
    sig.end \o U16(0) \o U16(0) \o U16(1) \o U16(1) \o U32(47) \o U32(32) \o U16(0)

\* An archive extra data record with 2 bytes of data.
ExtraData(sig) == sig.extra \o U32(2) \o << 5, 6 >>

NameA == << 97 >>
NameAB == << 97, 98 >>
NameC == << 99 >>

\* "a": flag 0, one byte of payload.
EntryA == Entry(NameA, 0, << 7 >>)
\* "ab": flag bit 3 (mask 8) set, one byte of payload, then a data descriptor.
EntryAB == Entry(NameAB, 8, << 7 >>) \o Descriptor(1)
\* "c": flag bit 2 (mask 4) set, the payload is itself the image of an entry,
\* then twelve more bytes.
EntryC == Entry(NameC, 4, EntryA) \o Descriptor(Len(EntryA))
\* Bytes in which no signature occurs.
Garbage == << 1, 2, 3 >>

BodySegments == { EntryA, EntryAB, EntryC, Garbage }

\* The local file header signature alone.
BareSignature == << 80, 75, 3, 4 >>

\* An entry that ends inside the fixed part of its header.
TruncatedEntry == SubSeq(EntryA, 1, 10)

\* What follows the body: tail records framed with the signatures sig.
TailsWith(sig) ==
    { EndRecord(sig),
      Header(sig, NameA) \o Garbage,
      Header(sig, NameA) \o EndRecord(sig),
      Header(sig, NameA) \o Header(sig, NameA) \o EndRecord(sig),
      Header(sig, NameAB) \o Signed(sig) \o EndRecord(sig),
      Signed(sig) \o EndRecord(sig),
      Header(sig, NameA) \o EndRecord(sig) \o EntryA,
      ExtraData(sig),
      ExtraData(sig) \o Header(sig, NameA) \o EndRecord(sig) }

CommonTailsWith(sig) ==
    { Header(sig, NameA),
      Header(sig, NameAB) \o Header(sig, NameA) \o Garbage \o Garbage,
      Header(sig, NameAB) \o Header(sig, NameA) \o EndRecord(sig) }

Tails ==
    { << >>, BareSignature, TruncatedEntry } \cup TailsWith(CodeSignatures)
    \cup CommonTailsWith(CodeSignatures) \cup CommonTailsWith(WireSignatures)

RECURSIVE Flatten(_)
Flatten(segs) == IF segs = << >> THEN << >> ELSE Head(segs) \o Flatten(Tail(segs))

SeqsUpTo(S, n) == UNION { [1..k -> S] : k \in 0..n }

Cut(bytes, c) == SubSeq(bytes, 1, IF c > Len(bytes) THEN 0 ELSE Len(bytes) - c)

Inputs ==
    { Cut(Flatten(body) \o tail, c) :
        body \in SeqsUpTo(BodySegments, MaxBody), tail \in Tails, c \in 0..MaxCut }

(***************************************************************************)
(* zip/reader.rs: ZipFileReader::read                                      *)
(***************************************************************************)
Init ==
    /\ input \in Inputs
    /\ pos = 0
    /\ pc = "prefix"
    /\ stored_files = << >>
    /\ archive_extra_data_record = None
    /\ central_directory = None
    /\ result = "none"

\* Mutant of next_position: positions counted from 1.
next_position_from_one(files) == Len(files) + 1

\* The position given to a stored file: stored_files.len().
next_position(files) == Len(files)

\* The probe of the first loop: compare_signature(..).or(Ok(false)).unwrap()
prefix_probe == compare_signature(input, pos, SIGNATURE_HEADER_LOCAL_FILE)

\* Abort of the program: an unwrap on an Err inside a decoder.
Abort ==
    /\ pc' = "done"
    /\ result' = "panic"
    /\ UNCHANGED <<input, stored_files, archive_extra_data_record, central_directory>>

\* Mutant of ReturnErr: the Err is unwrapped instead of returned.
ReturnErrByUnwrap ==
    /\ pc' = "done"
    /\ result' = "panic"
    /\ UNCHANGED <<input, stored_files, archive_extra_data_record, central_directory>>

\* Return of Err by `?`.
ReturnErr ==
    /\ pc' = "done"
    /\ result' = "err"
    /\ UNCHANGED <<input, stored_files, archive_extra_data_record, central_directory>>

\* First loop, the signature matched and the stored file was read.
PrefixStoredFile ==
    /\ pc = "prefix"
    /\ prefix_probe.ok /\ prefix_probe.match
    /\ \E probe \in { prefix_probe } :
       \E stored_file \in { StoredFileReader_read(input, probe.pos, next_position(stored_files)) } :
       /\ stored_file.status = "ok"
       /\ stored_files' = Append(stored_files, stored_file.value)
       /\ pos' = stored_file.pos
    /\ UNCHANGED <<input, pc, archive_extra_data_record, central_directory, result>>

\* Mutant of current_offset: the offset of the matched signature.
current_offset_at_signature(probe_pos) == probe_pos - 4

\* First loop, current_offset: the cursor read after the probe consumed the
\* signature.
current_offset(probe_pos) == probe_pos

\* First loop, the signature matched and the stored file could not be read:
\* the cursor goes back to current_offset, the position after the signature.
PrefixRewind ==
    /\ pc = "prefix"
    /\ prefix_probe.ok /\ prefix_probe.match
    /\ \E probe \in { prefix_probe } :
       \E stored_file \in { StoredFileReader_read(input, probe.pos, next_position(stored_files)) } :
       LET new_current_offset == stored_file.pos IN
       /\ stored_file.status = "err"
       /\ pos' = rewind_file_cursor(new_current_offset,
                                    new_current_offset - current_offset(probe.pos))
    /\ UNCHANGED <<input, pc, stored_files, archive_extra_data_record, central_directory,
                   result>>

\* First loop, the signature matched and the local file header reader panicked.
PrefixPanic ==
    /\ pc = "prefix"
    /\ prefix_probe.ok /\ prefix_probe.match
    /\ \E probe \in { prefix_probe } :
       \E stored_file \in { StoredFileReader_read(input, probe.pos, next_position(stored_files)) } :
       /\ stored_file.status = "panic"
       /\ pos' = stored_file.pos
    /\ Abort

\* First loop, the probe missed (rewound) or failed (not rewound): leave the loop.
PrefixExit ==
    /\ pc = "prefix"
    /\ ~(prefix_probe.ok /\ prefix_probe.match)
    /\ pos' = prefix_probe.pos
    /\ pc' = "resync"
    /\ UNCHANGED <<input, stored_files, archive_extra_data_record, central_directory, result>>

\* Second loop: the chunk read at the start of an iteration.
resync_chunk == read_chunk(input, pos, 4)
resync_pos == after_chunk(input, pos, 4)
resync_is(signature) ==
    compare_signature_raw(resync_pos, resync_chunk, signature, FALSE).match

\* Mutant of resync_is_central_directory: the signatures of the records that
\* end a central directory start one as well.
resync_is_central_directory_or_end ==
    \/ resync_is(SIGNATURE_HEADER_CENTRAL_DIRECTORY)
    \/ resync_is(SIGNATURE_CENTRAL_DIRECTORY_DIGITAL_SIGNATURE)
    \/ resync_is(SIGNATURE_END_OF_CENTRAL_DIRECTORY_RECORD)

\* Second loop, "Did we found the central directory?"
resync_is_central_directory == resync_is(SIGNATURE_HEADER_CENTRAL_DIRECTORY)

\* Mutant of after_central_directory: the loop goes on.
after_central_directory_continue == "resync"

\* Second loop, where the walker is after the central directory branch: the
\* break leaves the loop.
after_central_directory == "done"

\* Second loop, fewer than 4 bytes were read: compare_signature_raw(..)? is Err.
ResyncError ==
    /\ pc = "resync"
    /\ ~compare_signature_raw(resync_pos, resync_chunk, SIGNATURE_HEADER_LOCAL_FILE, FALSE).ok
    /\ pos' = resync_pos
    /\ ReturnErr

\* Second loop, a local file header: the stored file is kept if it was read.
ResyncStoredFile ==
    /\ pc = "resync"
    /\ resync_is(SIGNATURE_HEADER_LOCAL_FILE)
    /\ \E p \in { resync_pos } :
       \E stored_file \in { StoredFileReader_read(input, p, next_position(stored_files)) } :
       /\ stored_file.status # "panic"
       /\ stored_files' = IF stored_file.status = "ok"
                          THEN Append(stored_files, stored_file.value)
                          ELSE stored_files
       /\ pos' = stored_file.pos
    /\ UNCHANGED <<input, pc, archive_extra_data_record, central_directory, result>>

ResyncPanic ==
    /\ pc = "resync"
    /\ resync_is(SIGNATURE_HEADER_LOCAL_FILE)
    /\ \E p \in { resync_pos } :
       \E stored_file \in { StoredFileReader_read(input, p, next_position(stored_files)) } :
       /\ stored_file.status = "panic"
       /\ pos' = stored_file.pos
    /\ Abort

\* Second loop, an archive extra data record.
ResyncExtraData ==
    /\ pc = "resync"
    /\ resync_is(SIGNATURE_ARCHIVE_EXTRA_DATA_RECORD)
    /\ \E p \in { resync_pos } :
       \E record \in { ArchiveExtraDataRecordReader_read(input, p) } :
       /\ pos' = record.pos
       /\ IF record.status = "ok"
          THEN /\ archive_extra_data_record' = Some(record.value)
               /\ UNCHANGED <<input, pc, stored_files, central_directory, result>>
          ELSE ReturnErr

\* Second loop, a central directory file header: back 4 bytes, read the central
\* directory, update the stored files from it, and leave the loop.
ResyncCentralDirectory ==
    /\ pc = "resync"
    /\ ~resync_is(SIGNATURE_HEADER_LOCAL_FILE)
    /\ ~resync_is(SIGNATURE_ARCHIVE_EXTRA_DATA_RECORD)
    /\ resync_is_central_directory
    /\ \E p \in { rewind_file_cursor(resync_pos, 4) } :
       \E cd_result \in { CentralDirectoryReader_read(input, p) } :
       /\ pos' = cd_result.pos
       /\ IF cd_result.status = "ok"
          THEN /\ central_directory' = Some(cd_result.value)
               /\ stored_files' =
                      [i \in 1..Len(stored_files) |->
                          update_from_central_directory(stored_files[i], cd_result.value)]
          ELSE UNCHANGED <<central_directory, stored_files>>
    /\ pc' = after_central_directory
    /\ result' = IF after_central_directory = "done" THEN "ok" ELSE result
    /\ UNCHANGED <<input, archive_extra_data_record>>

resync_no_match ==
    /\ compare_signature_raw(resync_pos, resync_chunk, SIGNATURE_HEADER_LOCAL_FILE, FALSE).ok
    /\ ~resync_is(SIGNATURE_HEADER_LOCAL_FILE)
    /\ ~resync_is(SIGNATURE_ARCHIVE_EXTRA_DATA_RECORD)
    /\ ~resync_is_central_directory

\* Second loop, nothing matched and the file has no remaining space.
ResyncEnd ==
    /\ pc = "resync"
    /\ resync_no_match
    /\ ~file_has_remaining_space(input, resync_pos, 4)
    /\ pos' = resync_pos
    /\ pc' = "done"
    /\ result' = "ok"
    /\ UNCHANGED <<input, stored_files, archive_extra_data_record, central_directory>>

\* Second loop, nothing matched: shift of one byte.
ResyncShift ==
    /\ pc = "resync"
    /\ resync_no_match
    /\ file_has_remaining_space(input, resync_pos, 4)
    /\ pos' = rewind_file_cursor(resync_pos, 3)
    /\ UNCHANGED <<input, pc, stored_files, archive_extra_data_record, central_directory,
                   result>>

Next ==
    \/ PrefixStoredFile
    \/ PrefixRewind
    \/ PrefixPanic
    \/ PrefixExit
    \/ ResyncError
    \/ ResyncStoredFile
    \/ ResyncPanic
    \/ ResyncExtraData
    \/ ResyncCentralDirectory
    \/ ResyncEnd
    \/ ResyncShift

Spec == Init /\ [][Next]_vars

\* The inputs of the fair specification: bodies of two segments fewer.
FairInputs ==
    { Cut(Flatten(body) \o tail, c) :
        body \in SeqsUpTo(BodySegments, MaxBody - 2), tail \in Tails, c \in 0..MaxCut }

FairInit ==
    /\ input \in FairInputs
    /\ pos = 0
    /\ pc = "prefix"
    /\ stored_files = << >>
    /\ archive_extra_data_record = None
    /\ central_directory = None
    /\ result = "none"

\* The walker is sequential code: it takes its next step as long as one exists.
FairSpec == FairInit /\ [][Next]_vars /\ WF_vars(Next)

(***************************************************************************)
(* Properties.                                                             *)
(***************************************************************************)
Files == 1..Len(stored_files)

\* The bytes of the input at offsets o .. o+3.
BytesAt(o) == SubSeq(input, o + 1, o + 4)

\* The file headers of the central directory of the result, none without one.
ListedHeaders ==
    IF central_directory = None THEN << >> ELSE central_directory[1].file_headers

\* The indices of the file headers whose filename equals that of stored file i.
HeadersNamed(i) ==
    { j \in 1..Len(ListedHeaders) :
        ListedHeaders[j].filename = stored_files[i].local_file_header.filename }

\* The offset just after the bytes that stored file i was decoded from.
EndOffset(i) ==
    stored_files[i].offset_in_archive + 30
    + Len(stored_files[i].local_file_header.filename)
    + Len(stored_files[i].local_file_header.extra_field)
    + Len(stored_files[i].file_data)
    + (IF stored_files[i].data_descriptor = None THEN 0 ELSE 12)

\* The input is one local file header entry and nothing else: signature,
\* 26-byte header, filename, extra field and compressed_size bytes of payload.
SingleValidEntry ==
    /\ Len(input) >= 30
    /\ BytesAt(0) = << 80, 75, 3, 4 >>
    /\ Len(input) = 30 + (input[27] + 256 * input[28]) + (input[29] + 256 * input[30])
                       + (input[19] + 256 * input[20] + 65536 * input[21]
                          + 16777216 * input[22])

\* C1: an input that is exactly one valid entry yields Ok with one stored file
\* that is not found in the central directory, and no central directory.
C1_SingleEntryIsOk ==
    (pc = "done" /\ SingleValidEntry) =>
        /\ result = "ok"
        /\ Len(stored_files) = 1
        /\ stored_files[1].found_in_central_directory = FALSE
        /\ central_directory = None

\* Bit 3 (mask 0x0008) of a general purpose flag.
Bit3(flag) == (flag \div 8) % 2 = 1

\* C2: a stored file has a data descriptor exactly when bit 3 (mask 0x0008) of
\* its general purpose flag is set.
C2_DescriptorIffBit3 ==
    \A i \in Files :
        (stored_files[i].data_descriptor # None)
            <=> Bit3(stored_files[i].local_file_header.general_purpose_flag)

\* C3: no input, truncated inside a local file header or elsewhere, makes a
\* record decoder abort the program.
C3_NoAbort == result # "panic"

\* C4: a top-level Err is returned only while no stored file and no archive
\* extra data record has been decoded.
C4_ErrOnlyBeforeAnyRecord ==
    result = "err" => (stored_files = << >> /\ archive_extra_data_record = None)

\* C5: in an Ok result with a central directory, a stored file is found in the
\* central directory if and only if some file header has exactly its filename.
C5_FoundIffListed ==
    (result = "ok" /\ central_directory # None) =>
        \A i \in Files :
            stored_files[i].found_in_central_directory <=> HeadersNamed(i) # {}

C5_Witness ==
    /\ result = "ok" /\ central_directory # None
    /\ \E i, j \in Files :
          /\ i < j
          /\ stored_files[i].found_in_central_directory
          /\ ~stored_files[j].found_in_central_directory
          /\ stored_files[j].offset_in_archive > EndOffset(i)

\* C6, as claimed: in an Ok result a stored file found in the central directory
\* has exactly one file header with its filename.
C6_ExactlyOneHeader ==
    result = "ok" =>
        \A i \in Files :
            stored_files[i].found_in_central_directory => Cardinality(HeadersNamed(i)) = 1

\* C6, amended: in an Ok result a stored file found in the central directory has
\* at least one file header with its filename (there may be several).
C6_AtLeastOneHeader ==
    result = "ok" =>
        \A i \in Files :
            stored_files[i].found_in_central_directory => Cardinality(HeadersNamed(i)) >= 1

C6_Witness ==
    /\ result = "ok"
    /\ \E i \in Files :
          /\ stored_files[i].found_in_central_directory
          /\ Cardinality(HeadersNamed(i)) = 2

\* C7: in an Ok result the 4 input bytes at offset_in_archive of every stored
\* file are the local file header signature, 50 4b 03 04.
C7_OffsetAtSignature ==
    result = "ok" =>
        \A i \in Files :
            /\ stored_files[i].offset_in_archive >= 0
            /\ stored_files[i].offset_in_archive + 4 <= Len(input)
            /\ BytesAt(stored_files[i].offset_in_archive) = << 80, 75, 3, 4 >>

\* A file decoded in the first loop at offset 0 and a later one that does not
\* start where its predecessor ended, found by the scan.
C7_Witness ==
    /\ result = "ok"
    /\ Len(stored_files) >= 2
    /\ stored_files[1].offset_in_archive = 0
    /\ \E i \in Files : i > 1 /\ stored_files[i].offset_in_archive > EndOffset(i - 1)

\* C8: in an Ok result the position of the i-th stored file (0-based) is i.
C8_PositionIsIndex ==
    result = "ok" => \A i \in Files : stored_files[i].position = i - 1

\* Two stored files, the second one decoded from bytes inside the span of an
\* entry whose decode failed (its data descriptor was cut short).
C8_Witness ==
    /\ result = "ok"
    /\ Len(stored_files) >= 2
    /\ \E i \in Files :
          /\ i > 1
          /\ stored_files[i].offset_in_archive >= EndOffset(i - 1) + 30
          /\ BytesAt(EndOffset(i - 1)) = << 80, 75, 3, 4 >>

\* C9: after reconciliation a stored file with a file header of its filename has
\* offset_from_central_directory = central directory offset - offset_in_archive,
\* and any other stored file is not found and has no such offset.
C9_OffsetFromCentralDirectory ==
    result = "ok" =>
        \A i \in Files :
            IF HeadersNamed(i) # {}
            THEN /\ stored_files[i].found_in_central_directory
                 /\ stored_files[i].offset_from_central_directory =
                        Some(central_directory[1].offset_from_start_of_archive
                             - stored_files[i].offset_in_archive)
            ELSE /\ stored_files[i].found_in_central_directory = FALSE
                 /\ stored_files[i].offset_from_central_directory = None

C9_Witness ==
    /\ result = "ok"
    /\ \E i, j \in Files :
          /\ HeadersNamed(i) # {}
          /\ stored_files[i].offset_in_archive > 0
          /\ stored_files[i].offset_from_central_directory # None
          /\ HeadersNamed(j) = {}

\* C10: a central directory captured by the scan records as its offset the
\* offset at which the scan read the 4 bytes of the central directory file header
\* signature, and these bytes are 50 4b 01 02.
C10_CentralDirectoryOffset ==
    [][(pc = "resync" /\ central_directory' # None) =>
          /\ central_directory'[1].offset_from_start_of_archive = pos
          /\ BytesAt(pos) = << 80, 75, 1, 2 >>]_vars

\* Entries followed by central directory file headers and no end of central
\* directory record: the input ends after the last header, or goes on with
\* bytes that are no record.  entries is the number of entries.
MissingEndCases ==
    { [bytes |-> Flatten(body)
                 \o (IF two THEN Header(sig, NameAB) ELSE << >>) \o Header(sig, NameA)
                 \o SubSeq(Garbage \o Garbage, 1, g),
       entries |-> Len(body)] :
        body \in SeqsUpTo({ EntryA, EntryAB }, MaxBody) \ { << >> },
        sig \in { WireSignatures, CodeSignatures },
        two \in BOOLEAN,
        g \in 0..(2 * Len(Garbage)) }

\* C11: entries followed by central directory file headers without an end of
\* central directory record yield Ok with no central directory and with every
\* entry as a stored file that is not found in the central directory.
C11_MissingEndRecord ==
    pc = "done" =>
        \A case \in MissingEndCases :
            case.bytes = input =>
                /\ result = "ok"
                /\ central_directory = None
                /\ Len(stored_files) = case.entries
                /\ \A i \in Files : stored_files[i].found_in_central_directory = FALSE

\* Two entries, two file headers that the central directory decoder reads, and
\* bytes that are no end of central directory record.
C11_Witness ==
    /\ pc = "done" /\ result = "ok" /\ central_directory = None
    /\ Len(stored_files) = 2
    /\ input = EntryA \o EntryAB \o Header(CodeSignatures, NameAB)
                \o Header(CodeSignatures, NameA) \o Garbage \o Garbage

\* An entry, garbage, a second entry and a central directory, framed with the
\* signatures sig, that lists both: the result has both stored files, at
\* offsets 0 and after the garbage, at positions 0 and 1, both found.
ResyncOverGarbage(sig) ==
    \A g \in 1..(MaxBody - 2) :
        LET garbage == Flatten([k \in 1..g |-> Garbage]) IN
        input = EntryA \o garbage \o EntryAB \o Header(sig, NameAB)
                \o Header(sig, NameA) \o EndRecord(sig) =>
            /\ result = "ok"
            /\ Len(stored_files) = 2
            /\ stored_files[1].offset_in_archive = 0
            /\ stored_files[2].offset_in_archive = Len(EntryA) + Len(garbage)
            /\ stored_files[1].position = 0
            /\ stored_files[2].position = 1
            /\ stored_files[1].found_in_central_directory
            /\ stored_files[2].found_in_central_directory

\* C12: for an entry, garbage bytes without a signature, a second entry and a
\* central directory listing both filenames, the walker resyncs over the
\* garbage and returns two stored files with offsets 0 and (length of the first
\* entry + length of the garbage), positions 0 and 1, both found in the central
\* directory.
C12_ResyncOverGarbage == pc = "done" => ResyncOverGarbage(WireSignatures)

\* The same for a central directory framed with the values of constants.rs.
ResyncOverGarbageAsMatched == pc = "done" => ResyncOverGarbage(CodeSignatures)

\* Stored file i holds fewer payload bytes than its header's compressed_size.
PayloadCutShort(i) ==
    Len(stored_files[i].file_data) < stored_files[i].local_file_header.compressed_size

\* C13: in an Ok result the file_data of every stored file has the length of
\* its header's compressed_size: no payload was cut short by the end of input.
C13_PayloadIsComplete ==
    result = "ok" =>
        \A i \in Files :
            /\ Len(stored_files[i].file_data) =
                   stored_files[i].local_file_header.compressed_size
            /\ ~PayloadCutShort(i)

\* An Ok result with stored files of different payload sizes, the last of
\* them decoded by the scan.
C13_Witness ==
    /\ result = "ok"
    /\ Len(stored_files) >= 2
    /\ \E i, j \in Files :
          /\ Len(stored_files[i].file_data) = Len(EntryA)
          /\ Len(stored_files[j].file_data) = 1
          /\ j > 1 /\ stored_files[j].offset_in_archive > EndOffset(j - 1)

\* C14: on the empty input, and on every input of fewer than 4 bytes, the
\* walker does not panic: it ends with a top-level Err or with an Ok model
\* without stored files and without central directory.
C14_ShortInput ==
    Len(input) < 4 =>
        /\ result # "panic"
        /\ pc = "done" => result \in { "err", "ok" }
        /\ result = "ok" => (stored_files = << >> /\ central_directory = None)

\* The walker has ended on the empty input.
C14_Witness == input = << >> /\ pc = "done" /\ result = "err"

\* The signatures the code probes for.
ProbedSignatures ==
    { SIGNATURE_HEADER_LOCAL_FILE, SIGNATURE_ARCHIVE_EXTRA_DATA_RECORD,
      SIGNATURE_HEADER_CENTRAL_DIRECTORY, SIGNATURE_CENTRAL_DIRECTORY_DIGITAL_SIGNATURE,
      SIGNATURE_END_OF_CENTRAL_DIRECTORY_RECORD }

\* C15: compare_signature at cursor p with at least 4 bytes remaining returns
\* true and leaves the cursor at p+4 when the next 4 bytes are the
\* little-endian bytes of the signature, and returns false and leaves the
\* cursor at p otherwise; with fewer than 4 bytes remaining it returns an
\* error and leaves the cursor after the bytes it read, at the end of input.
C15_CompareSignature ==
    \A sig \in ProbedSignatures :
        LET probe == compare_signature(input, pos, sig) IN
        IF Len(input) - pos >= 4
        THEN /\ probe.ok
             /\ probe.match <=> (BytesAt(pos) = U32(sig))
             /\ probe.pos = IF BytesAt(pos) = U32(sig) THEN pos + 4 ELSE pos
        ELSE /\ ~probe.ok
             /\ probe.pos = Len(input)

\* The walker is in its first loop behind a stored file, where one more local
\* file header signature matches and the other signatures do not.
C15_Witness ==
    /\ pc = "prefix" /\ pos > 0 /\ Len(stored_files) = 1
    /\ Len(input) - pos >= 4
    /\ compare_signature(input, pos, SIGNATURE_HEADER_LOCAL_FILE).match
    /\ compare_signature(input, pos, SIGNATURE_HEADER_LOCAL_FILE).pos = pos + 4
    /\ ~compare_signature(input, pos, SIGNATURE_HEADER_CENTRAL_DIRECTORY).match
    /\ compare_signature(input, pos, SIGNATURE_HEADER_CENTRAL_DIRECTORY).pos = pos

\* The number of input bytes of a run of central directory file headers.
RECURSIVE HeadersSpan(_)
HeadersSpan(headers) ==
    IF headers = << >> THEN 0
    ELSE 46 + Len(Head(headers).filename) + Len(Head(headers).extra_field)
         + Len(Head(headers).file_comment) + HeadersSpan(Tail(headers))

\* The offset just after the file headers of the central directory of the result.
HeadersEnd ==
    central_directory[1].offset_from_start_of_archive
    + HeadersSpan(central_directory[1].file_headers)

\* With records framed by the signatures sig: the central directory of an Ok
\* result has a digital signature exactly when the digital signature's
\* signature is just after the file headers; its data then has the length of
\* the record's 16-bit length field and the end record follows it.
DigitalSignatureAfterHeaders(sig) ==
    (result = "ok" /\ central_directory # None) =>
        /\ (central_directory[1].digital_signature # None)
               <=> (BytesAt(HeadersEnd) = sig.digital)
        /\ central_directory[1].digital_signature # None =>
               LET data == central_directory[1].digital_signature[1].signature_data IN
               /\ Len(data) = input[HeadersEnd + 5] + 256 * input[HeadersEnd + 6]
               /\ data = SubSeq(input, HeadersEnd + 7, HeadersEnd + 6 + Len(data))
               /\ BytesAt(HeadersEnd + 6 + Len(data)) = sig.end

\* C16: after the file headers the central directory decoder decodes a digital
\* signature record if and only if the signature 0x05054b50 (bytes 50 4b 05 05)
\* is at that position; digital_signature is then present with exactly as many
\* bytes of data as the record's length field says, and the end of central
\* directory record follows; otherwise digital_signature is None.
C16_DigitalSignature == DigitalSignatureAfterHeaders(WireSignatures)

\* The same for records framed with the values of constants.rs.
DigitalSignatureAsMatched == DigitalSignatureAfterHeaders(CodeSignatures)

\* A step of the scan that matched no signature and goes on moves the cursor
\* forward by one byte.
ScanAdvancesOneByte ==
    (pc = "resync" /\ resync_no_match /\ pc' = "resync") => pos' = pos + 1

\* The scan starts at the offset where the probe of the first loop missed.
ScanStartsAtMiss ==
    (pc = "prefix" /\ pc' = "resync" /\ Len(input) - pos >= 4) => pos' = pos

\* The scan ends on a chunk that matched no signature only when the next
\* offset has fewer than 4 bytes before the end of input.
ScanEndsAtEndOfInput ==
    (pc = "resync" /\ resync_no_match /\ pc' = "done") => Len(input) - (pos + 1) < 4

\* C17: in the scan a chunk that matches no signature advances the cursor by
\* exactly one byte, the scan starts at the offset where the first loop's probe
\* missed, and it ends without a match only when fewer than 4 bytes remain:
\* every offset q from the start with q + 4 <= input length is probed unless a
\* signature matched earlier.
C17_ScanProbesEveryOffset ==
    [][ScanAdvancesOneByte /\ ScanStartsAtMiss /\ ScanEndsAtEndOfInput]_vars

\* The first two parts of C17 alone.
ScanStepAndStart == [][ScanAdvancesOneByte /\ ScanStartsAtMiss]_vars

\* In the first loop the signature matched at the cursor and the stored file
\* decoder returned an error.
PrefixDecodeFails ==
    /\ pc = "prefix"
    /\ Len(input) - pos >= 4
    /\ BytesAt(pos) = << 80, 75, 3, 4 >>
    /\ StoredFileReader_read(input, pos + 4, Len(stored_files)).status = "err"

\* C18, as claimed: when the stored file decoder fails in the first loop after
\* a signature matched at offset p, the walker rewinds the cursor to p, appends
\* nothing to stored_files and goes to the scan.
C18_RewindToSignature ==
    [][PrefixDecodeFails =>
          (pos' = pos /\ stored_files' = stored_files /\ pc' = "resync")]_vars

\* C18, amended: the walker rewinds the cursor to p + 4, just after the failed
\* signature, appends nothing and stays in the first loop, whose next probe is
\* made at p + 4; the scan starts there when that probe misses.
C18_RewindAfterSignature ==
    [][/\ PrefixDecodeFails =>
             (pos' = pos + 4 /\ stored_files' = stored_files /\ pc' = "prefix"
              /\ result' = result)
       /\ ScanStartsAtMiss]_vars

\* The first loop after such a rewind: the cursor is just after a local file
\* header signature whose entry cannot be decoded, and no stored file was kept.
C18_Witness ==
    /\ pc = "prefix" /\ pos >= 4
    /\ BytesAt(pos - 4) = << 80, 75, 3, 4 >>
    /\ StoredFileReader_read(input, pos, Len(stored_files)).status = "err"
    /\ \A i \in Files : stored_files[i].offset_in_archive # pos - 4

\* The chunk of the scan at the cursor is the central directory file header
\* signature of constants.rs.
ScanAtCentralDirectory ==
    /\ pc = "resync"
    /\ Len(input) - pos >= 4
    /\ BytesAt(pos) = U32(SIGNATURE_HEADER_CENTRAL_DIRECTORY)

\* C19: once the scan matches a central directory file header signature the
\* walker makes one central directory decode attempt and returns: whether the
\* decode succeeds or not, no stored file and no archive extra data record is
\* added, the cursor stays where the central directory decoder stopped, and no
\* step follows the return.
C19_ReturnAfterCentralDirectory ==
    [][/\ pc # "done"
       /\ ScanAtCentralDirectory =>
             /\ pc' = "done" /\ result' = "ok"
             /\ Len(stored_files') = Len(stored_files)
             /\ archive_extra_data_record' = archive_extra_data_record
             /\ pos' = CentralDirectoryReader_read(input, pos).pos]_vars

\* An Ok result with a central directory, where an entry lies behind the
\* central directory and is not among the stored files.
C19_Witness ==
    /\ result = "ok" /\ central_directory # None
    /\ Len(input) - pos >= Len(EntryA)
    /\ SubSeq(input, pos + 1, pos + Len(EntryA)) = EntryA
    /\ Len(stored_files) >= 1
    /\ \A i \in Files : stored_files[i].offset_in_archive < pos

\* Inputs whose tail is only an end of central directory record, or a digital
\* signature followed by one, without any central directory file header.
EndOnlyInputs ==
    { Flatten(body) \o (IF signed THEN Signed(sig) ELSE << >>) \o EndRecord(sig) :
        body \in SeqsUpTo(BodySegments, MaxBody),
        sig \in { WireSignatures, CodeSignatures },
        signed \in BOOLEAN }

\* C20: in an Ok result a central directory has at least one file header, and
\* an input whose tail is only an end of central directory record (or a digital
\* signature and one), with no file header, has no central directory.
C20_CentralDirectoryHasHeader ==
    result = "ok" =>
        /\ central_directory # None => Len(central_directory[1].file_headers) >= 1
        /\ input \in EndOnlyInputs => central_directory = None

\* Two entries, then a digital signature and an end of central directory
\* record that the decoder would read, and no file header.
C20_Witness ==
    /\ result = "ok" /\ central_directory = None
    /\ Len(stored_files) = 2
    /\ input = EntryA \o EntryAB \o Signed(CodeSignatures) \o EndRecord(CodeSignatures)

\* C21: in every state the offset_in_archive values of the stored files are
\* strictly increasing with position, and once a central directory is captured
\* every stored file's offset_in_archive is strictly less than the central
\* directory's offset_from_start_of_archive, so the subtraction of
\* update_from_central_directory does not underflow.
C21_OffsetsIncrease ==
    /\ \A i \in Files :
           i > 1 => stored_files[i - 1].offset_in_archive < stored_files[i].offset_in_archive
    /\ central_directory # None =>
           \A i \in Files :
               /\ stored_files[i].offset_in_archive
                      < central_directory[1].offset_from_start_of_archive
               /\ stored_files[i].offset_from_central_directory # None =>
                      stored_files[i].offset_from_central_directory[1] > 0

\* Three stored files, the last one found by the scan, and a central directory
\* from which offsets were computed.
C21_Witness ==
    /\ central_directory # None
    /\ Len(stored_files) = 3
    /\ stored_files[3].offset_in_archive > EndOffset(2)
    /\ \E i \in Files : stored_files[i].offset_from_central_directory # None

\* From one iteration of a loop to the next of the same loop the cursor moves
\* forward.
IterationAdvances == (pc' = pc) => pos' > pos

\* C22: on every input the walker eventually stops, with Ok, Err or an abort:
\* neither loop runs forever, the cursor at the start of successive iterations
\* of a loop being strictly increasing, also after a failed stored file decode
\* followed by a rewind.
C22_Terminates == <>(pc = "done") /\ [][IterationAdvances]_vars

\* The cursor part of C22 alone.
IterationsAdvance == [][IterationAdvances]_vars

\* The walker has stopped after a failed stored file decode and its rewind in
\* the first loop, and a scan of more than 30 offsets.
C22_Witness ==
    /\ pc = "done" /\ pos > 34
    /\ BytesAt(0) = << 80, 75, 3, 4 >>
    /\ StoredFileReader_read(input, 4, 0).status = "err"

\* C23: in an Ok result a stored file is found in the central directory if and
\* only if its offset_from_central_directory is Some, and without a central
\* directory (none found, or its decode failed) every stored file is not found
\* and has no such offset.
C23_FoundIffOffset ==
    result = "ok" =>
        /\ \A i \in Files :
               stored_files[i].found_in_central_directory
                   <=> (stored_files[i].offset_from_central_directory # None)
        /\ central_directory = None =>
               \A i \in Files :
                   /\ stored_files[i].found_in_central_directory = FALSE
                   /\ stored_files[i].offset_from_central_directory = None

\* An Ok result with a central directory and three stored files or more, some
\* found and with an offset, some not found and without.
C23_Witness ==
    /\ result = "ok" /\ central_directory # None
    /\ Len(stored_files) >= 3
    /\ \E i \in Files :
          /\ stored_files[i].found_in_central_directory
          /\ stored_files[i].offset_from_central_directory # None
    /\ \E j \in Files :
          /\ ~stored_files[j].found_in_central_directory
          /\ stored_files[j].offset_from_central_directory = None

====
